---- MODULE Spec2Model ----
(***************************************************************************)
(* A model of doitfilemappers/filemappers.py: the mapper hierarchy         *)
(* (BaseFileMapper, IdentityMapper, RegexMapper, GlobMapper, MergeMapper,  *)
(* CompositeMapper, ChainedMapper), the task dictionaries get_task fills   *)
(* in, and the actions it builds.                                          *)
(*                                                                         *)
(* Strings and paths are sequences of one-character strings.  The          *)
(* characters of the model contain neither "/" nor ".", and in_path is     *)
(* its default Path("."), so that pathlib's normalisation changes exactly  *)
(* one string: the empty string, whose path is ".".                        *)
(***************************************************************************)
EXTENDS Integers, Sequences, FiniteSets, TLC

\* ------------------------------------------------------------------ bounds

\* The most stages (sub-mappers) a composite or a chain has.
MaxStages == 2
\* The most entries of a source list.
MaxSrc == 2
\* The cap of the per-mapper count of _create_map runs since the last src assignment.
MaxRuns == 2
\* The most calls of the callback wrapped by open_files_with_merge.
MaxCalls == 3

\* ------------------------------------------------------------------ strings and paths

Range(s) == {s[i] : i \in 1..Len(s)}

\* The file names of the model.
Files == {<<"a", "x">>, <<"b", "x">>, <<"a", "y">>}

\* All lists of distinct files of at most MaxSrc entries.
SrcLists ==
  {s \in UNION {[1..n -> Files] : n \in 0..MaxSrc} :
     \A i, j \in 1..Len(s) : i # j => s[i] # s[j]}

\* All the orders in which a set can be listed.
Perms(S) ==
  {s \in [1..Cardinality(S) -> S] : \A i, j \in 1..Cardinality(S) : i # j => s[i] # s[j]}

\* pathlib.Path(s): the path of a string.
PathOf(s) == IF s = <<>> THEN <<".">> ELSE s

\* str(p): the string of a path.
StrOf(p) == p

\* in_path / p, for in_path = Path("."), p a path or a string.
InPathJoin(p) == PathOf(StrOf(p))

IsPrefix(p, s) == Len(p) <= Len(s) /\ SubSeq(s, 1, Len(p)) = p

IsSuffix(p, s) == Len(p) <= Len(s) /\ SubSeq(s, Len(s) - Len(p) + 1, Len(s)) = p

Drop(s, n) == SubSeq(s, n + 1, Len(s))

\* str.count("*")
CountStar(s) == Cardinality({i \in 1..Len(s) : s[i] = "*"})

\* The index of the first "*" of s, 0 when there is none.
FirstStar(s) ==
  IF CountStar(s) = 0 THEN 0
  ELSE CHOOSE i \in 1..Len(s) : s[i] = "*" /\ \A j \in 1..(i - 1) : s[j] # "*"

\* ------------------------------------------------------------------ regular expressions
\* The patterns of the model are of two shapes:
\*   kind "group": ^ pre (.+) post $   (what GlobMapper compiles), one group;
\*   kind "lit":   pre                 (a literal searched anywhere), no group.
\* A replacement template is a sequence of characters and of the token BackRef,
\* the backreference \1.

BackRef == "\\1"

GroupRe(pre, post) == [kind |-> "group", pre |-> pre, post |-> post]

LitRe(lit) == [kind |-> "lit", pre |-> lit, post |-> <<>>]

\* pattern.search(s) finds a match.
Search(re, s) ==
  IF re.kind = "group"
  THEN /\ IsPrefix(re.pre, s)
       /\ IsSuffix(re.post, s)
       /\ Len(s) >= Len(re.pre) + Len(re.post) + 1
  ELSE \E i \in 0..(Len(s) - Len(re.pre)) : SubSeq(s, i + 1, i + Len(re.pre)) = re.pre

\* The text of group 1 of the match of a "group" pattern.
Group1(re, s) == SubSeq(s, Len(re.pre) + 1, Len(s) - Len(re.post))

RECURSIVE Expand(_, _)
\* The expansion of a replacement template, g the text of group 1.
Expand(tpl, g) ==
  IF tpl = <<>> THEN <<>>
  ELSE (IF Head(tpl) = BackRef THEN g ELSE <<Head(tpl)>>) \o Expand(Tail(tpl), g)

RECURSIVE SubLit(_, _, _)
\* re.sub of a literal: every non-overlapping occurrence, leftmost first.
SubLit(lit, tpl, s) ==
  IF s = <<>> \/ lit = <<>> THEN s
  ELSE IF IsPrefix(lit, s) THEN Expand(tpl, <<>>) \o SubLit(lit, tpl, Drop(s, Len(lit)))
  ELSE <<Head(s)>> \o SubLit(lit, tpl, Tail(s))

\* re.sub(pattern, replace, s)
ReSub(re, tpl, s) ==
  IF re.kind = "group"
  THEN IF Search(re, s) THEN Expand(tpl, Group1(re, s)) ELSE s
  ELSE SubLit(re.pre, tpl, s)

\* ------------------------------------------------------------------ the mappers

Identity == "IdentityMapper"
Regex == "RegexMapper"
Glob == "GlobMapper"
Merge == "MergeMapper"
Composite == "CompositeMapper"
Chained == "ChainedMapper"

\* The stage mappers are 1..MaxStages; then the composite and the chain.
Leaves == 1..MaxStages
CompId == MaxStages + 1
ChainId == MaxStages + 2
MapperIds == 1..(MaxStages + 2)

\* The error messages, by what a test looks for in them.
NoErr == "none"
ErrEmpty == "RuntimeError: The generated map is empty"
ErrSrc == "RuntimeError: src must be a path list, a glob expression or a Path instance"
ErrAsterisk == "RuntimeError: Glob pattern: asterisk"
ErrNoGlob == "RuntimeError: No valid glob search pattern found"
ErrTarget == "RuntimeError: Target must be set"
ErrName == "NameError: global name 'task' is not defined"
ErrUnbound == "UnboundLocalError: local variable 'file_map' referenced before assignment"
ErrKey == "KeyError: 'targets'"
ErrStop == "StopIteration"

\* A mapper that has not been constructed.
NoMapper ==
  [exists |-> FALSE, type |-> "None", src |-> <<>>, map |-> <<>>,
   map_initialized |-> FALSE, callback |-> "None", file_dep |-> FALSE,
   allow_empty_map |-> FALSE, pattern |-> LitRe(<<>>), replace |-> <<>>,
   ignore_nonmatching |-> FALSE, target |-> <<>>, sub_mappers |-> <<>>,
   runs |-> 0, okruns |-> 0]

\* A source specification, as the caller writes it: a glob string, a list of
\* paths or strings, one Path, or a value that is none of these.
GlobSpec(str) == [kind |-> "glob", str |-> str, list |-> <<>>]
ListSpec(l) == [kind |-> "list", str |-> <<>>, list |-> l]
PathSpec(p) == [kind |-> "path", str |-> <<>>, list |-> <<p>>]
BadSpec == [kind |-> "bad", str |-> <<>>, list |-> <<>>]

Min(a, b) == IF a < b THEN a ELSE b

\* The src setter.  listing is what pathlib's glob finds for a glob string.
\* The result is the mapper after the assignment and the error raised, if any.
SetSrc(r, spec, listing) ==
  IF spec.kind = "glob"
  THEN [mapper |-> [r EXCEPT !.src = listing, !.map_initialized = FALSE,
                             !.runs = 0, !.okruns = 0],
        err |-> NoErr]
  ELSE IF spec.kind \in {"list", "path"}
  THEN [mapper |-> [r EXCEPT !.src = [k \in 1..Len(spec.list) |-> InPathJoin(spec.list[k])],
                             !.map_initialized = FALSE, !.runs = 0, !.okruns = 0],
        err |-> NoErr]
  ELSE [mapper |-> r, err |-> ErrSrc]

\* RegexMapper._get_target_from_source
GetTargetFromSource(r, source) == PathOf(ReSub(r.pattern, r.replace, StrOf(source)))

\* RegexMapper._source_matches
SourceMatchesBroken(r, source) == Search(r.pattern, StrOf(source))

SourceMatches(r, source) == ~r.ignore_nonmatching \/ Search(r.pattern, StrOf(source))

RECURSIVE RegexCreateMap(_, _)
\* RegexMapper._create_map
RegexCreateMap(r, src) ==
  IF src = <<>> THEN <<>>
  ELSE (IF SourceMatches(r, Head(src))
        THEN << <<Head(src), GetTargetFromSource(r, Head(src))>> >>
        ELSE <<>>) \o RegexCreateMap(r, Tail(src))

\* IdentityMapper._create_map
IdentityCreateMap(r, src) == [k \in 1..Len(src) |-> <<src[k], src[k]>>]

\* MergeMapper._create_map
MergeCreateMap(r, src) == [k \in 1..Len(src) |-> <<src[k], r.target>>]

\* _create_map of the mappers that have no sub-mappers.
LeafCreateMap(r) ==
  IF r.type = Identity THEN IdentityCreateMap(r, r.src)
  ELSE IF r.type \in {Regex, Glob} THEN RegexCreateMap(r, r.src)
  ELSE MergeCreateMap(r, r.src)

\* The mapper after a _create_map that returned file_map: lines 29-30 of get_map.
Cached(r, file_map) ==
  [r EXCEPT !.map = file_map, !.map_initialized = TRUE,
            !.runs = Min(r.runs + 1, MaxRuns), !.okruns = Min(r.okruns + 1, MaxRuns)]

\* The mapper after a _create_map that raised.
Raised(r) == [r EXCEPT !.runs = Min(r.runs + 1, MaxRuns)]

\* sub_mapper.get_map() on a mapper that has no sub-mappers: the mapper afterwards.
LeafGetMap(r) == IF r.map_initialized THEN r ELSE Cached(r, LeafCreateMap(r))

Zip(a, b) == [k \in 1..Min(Len(a), Len(b)) |-> <<a[k], b[k]>>]

Sources(file_map) == [k \in 1..Len(file_map) |-> file_map[k][1]]

Targets(file_map) == [k \in 1..Len(file_map) |-> file_map[k][2]]

\* set([str(t) for t in targets])
TargetStrs(file_map) == {StrOf(file_map[k][2]) : k \in 1..Len(file_map)}

RECURSIVE CompositeFoldPrepend(_, _, _, _)
CompositeFoldPrepend(ms, subs, k, combined_map) ==
  IF k > Len(subs) THEN [ms |-> ms, map |-> combined_map]
  ELSE LET sub == LeafGetMap(ms[subs[k]])
       IN  CompositeFoldPrepend([ms EXCEPT ![subs[k]] = sub], subs, k + 1,
                                sub.map \o combined_map)

RECURSIVE CompositeFold(_, _, _, _)
\* The loop of CompositeMapper._create_map from sub-mapper k on: the mappers
\* afterwards (each sub-mapper's get_map caches) and the combined map.
CompositeFold(ms, subs, k, combined_map) ==
  IF k > Len(subs) THEN [ms |-> ms, map |-> combined_map]
  ELSE LET sub == LeafGetMap(ms[subs[k]])
       IN  CompositeFold([ms EXCEPT ![subs[k]] = sub], subs, k + 1, combined_map \o sub.map)

\* CompositeMapper._create_map; src is ignored.
CompositeCreateMap(ms, c) == CompositeFold(ms, ms[c].sub_mappers, 1, <<>>)

RECURSIVE ChainStages(_, _, _, _, _, _)
\* The loop of ChainedMapper._create_map from stage k on.  list(set(...)) lists
\* the targets in an order of the set's choosing, so the result is a set of
\* outcomes: the mappers afterwards, the error raised (if any) and the map.
\* start_source is <<>> for None.
ChainStages(ms, c, k, src, start_source, file_map) ==
  LET subs == ms[c].sub_mappers IN
  IF k > Len(subs)
  THEN IF Len(subs) = 0
       THEN {[ms |-> ms, err |-> ErrUnbound, map |-> <<>>]}
       ELSE {[ms |-> ms, err |-> NoErr, map |-> Zip(start_source, Targets(file_map))]}
  ELSE LET sub == LeafGetMap(SetSrc(ms[subs[k]], ListSpec(src), <<>>).mapper)
           ms2 == [ms EXCEPT ![subs[k]] = sub]
       IN  IF sub.map = <<>>
           THEN IF ms[c].allow_empty_map
                THEN {[ms |-> ms2, err |-> ErrName, map |-> <<>>]}
                ELSE {[ms |-> ms2, err |-> ErrEmpty, map |-> <<>>]}
           ELSE UNION {ChainStages(ms2, c, k + 1, nsrc,
                                   IF start_source = <<>> THEN Sources(sub.map)
                                   ELSE start_source,
                                   sub.map) : nsrc \in Perms(TargetStrs(sub.map))}

\* ChainedMapper._create_map
ChainCreateMap(ms, c) == ChainStages(ms, c, 1, ms[c].src, <<>>, <<>>)

\* Line 29-30 of get_map on mapper i, whose map is not initialized: the set of
\* outcomes (one, unless i is a chain), each the mappers afterwards, the error
\* raised and the map returned.
GetMapUncached(ms, i) ==
  IF ms[i].type = Composite
  THEN LET o == CompositeCreateMap(ms, i)
       IN  {[ms |-> [o.ms EXCEPT ![i] = Cached(o.ms[i], o.map)], err |-> NoErr,
             map |-> o.map]}
  ELSE IF ms[i].type = Chained
  THEN {IF o.err = NoErr
        THEN [ms |-> [o.ms EXCEPT ![i] = Cached(o.ms[i], o.map)], err |-> NoErr,
              map |-> o.map]
        ELSE [ms |-> [o.ms EXCEPT ![i] = Raised(o.ms[i])], err |-> o.err, map |-> <<>>]
        : o \in ChainCreateMap(ms, i)}
  ELSE {[ms |-> [ms EXCEPT ![i] = Cached(ms[i], LeafCreateMap(ms[i]))], err |-> NoErr,
         map |-> LeafCreateMap(ms[i])]}

GetMapNoCache(ms, i) == GetMapUncached(ms, i)

\* BaseFileMapper.get_map on mapper i: the set of outcomes.
GetMapOutcomes(ms, i) ==
  IF ms[i].map_initialized
  THEN {[ms |-> ms, err |-> NoErr, map |-> ms[i].map]}
  ELSE GetMapUncached(ms, i)

\* ------------------------------------------------------------------ task dictionaries
\* A task dictionary is a record of its keys (the set keys) and their values; the
\* value of a key that is not in keys is not part of the dictionary.  "targets" is
\* list(set(...)): a list without duplicates in an order of the set's choosing,
\* modelled as the set.

TaskKeys == {"targets", "file_dep", "actions", "name", "title", "action"}

EmptyTask ==
  [keys |-> {}, targets |-> {}, file_dep |-> <<>>, actions |-> <<>>, name |-> <<"", 0>>,
   title |-> "", action |-> "None"]

\* The callables and the command templates a callback can be.
Callables == {"f", "g"}
Templates == {"mv"}

\* lambda targets: True
Noop == [kind |-> "noop", file_map |-> <<>>, cb |-> "None", source |-> <<>>, target |-> <<>>]

\* An action the caller put into the base dictionary.
UserAction == [kind |-> "user", file_map |-> <<>>, cb |-> "None", source |-> <<>>, target |-> <<>>]

\* The closure task_action of get_action: it holds file_map and callback.
TaskAction(file_map, callback) ==
  [kind |-> "task_action", file_map |-> file_map, cb |-> callback, source |-> <<>>,
   target |-> <<>>]

\* get_cmd_action: one literal command per entry, cmd % {source, target}.
GetCmdAction(file_map, cmd) ==
  [k \in 1..Len(file_map) |->
     [kind |-> "cmd", file_map |-> <<>>, cb |-> cmd, source |-> StrOf(file_map[k][1]),
      target |-> StrOf(file_map[k][2])]]

\* BaseFileMapper._get_task_for_empty_map
GetTaskForEmptyMapAlways(task) ==
  [task EXCEPT !.keys = @ \cup {"actions"}, !.actions = <<Noop>>]

GetTaskForEmptyMap(task) ==
  IF "actions" \notin task.keys
  THEN [task EXCEPT !.keys = @ \cup {"actions"}, !.actions = <<Noop>>]
  ELSE task

\* Lines 69-83 of get_task: the dictionary filled in from a non-empty map.
FillTask(r, file_map, task) ==
  LET callback == IF r.callback = "None" /\ "action" \in task.keys THEN task.action
                  ELSE r.callback
      t1 == [task EXCEPT !.keys = @ \cup {"targets"}, !.targets = TargetStrs(file_map)]
      t2 == IF callback \in Callables
            THEN [t1 EXCEPT !.keys = @ \cup {"actions"},
                            !.actions = <<TaskAction(file_map, callback)>>]
            ELSE IF callback \in Templates
            THEN [t1 EXCEPT !.keys = @ \cup {"actions"},
                            !.actions = GetCmdAction(file_map, callback)]
            ELSE t1
  IN  IF r.file_dep
      THEN [t2 EXCEPT !.keys = @ \cup {"file_dep"},
                      !.file_dep = [k \in 1..Len(file_map) |-> StrOf(file_map[k][1])]]
      ELSE t2

\* BaseFileMapper.get_task on mapper i with the dictionary task: the set of
\* outcomes, each the mappers afterwards, the error raised and the dictionary
\* afterwards (which is also what is returned).
BaseGetTask(ms, i, task) ==
  {IF o.err # NoErr THEN [ms |-> o.ms, err |-> o.err, task |-> task]
   ELSE IF o.map = <<>>
   THEN IF ms[i].allow_empty_map
        THEN [ms |-> o.ms, err |-> NoErr, task |-> GetTaskForEmptyMap(task)]
        ELSE [ms |-> o.ms, err |-> ErrEmpty, task |-> task]
   ELSE [ms |-> o.ms, err |-> NoErr, task |-> FillTask(ms[i], o.map, task)]
   : o \in GetMapOutcomes(ms, i)}

\* ------------------------------------------------------------------ construction

\* BaseFileMapper.__init__ (with _initialize_defaults): the mapper and the error
\* the src setter raised, if any.
BaseInit(type, spec, listing, callback, file_dep, allow_empty_map) ==
  SetSrc([NoMapper EXCEPT !.exists = TRUE, !.type = type, !.callback = callback,
                          !.file_dep = file_dep, !.allow_empty_map = allow_empty_map],
         spec, listing)

\* IdentityMapper.__init__
IdentityInit(spec, listing, callback, file_dep, allow_empty_map) ==
  BaseInit(Identity, spec, listing, callback, file_dep, allow_empty_map)

\* RegexMapper.__init__
RegexInit(type, spec, listing, callback, search, replace, ign, file_dep, allow_empty_map) ==
  LET b == BaseInit(type, spec, listing, callback, file_dep, allow_empty_map)
  IN  IF b.err # NoErr THEN b
      ELSE [mapper |-> [b.mapper EXCEPT !.pattern = search, !.replace = replace,
                                        !.ignore_nonmatching = ign],
            err |-> NoErr]

\* GlobMapper._get_search_regex: the compiled pattern and the error raised, if any.
GetSearchRegexLax(pattern) ==
  LET star == FirstStar(pattern)
  IN  IF star = 0 THEN [re |-> LitRe(pattern), err |-> NoErr]
      ELSE [re |-> GroupRe(SubSeq(pattern, 1, star - 1), Drop(pattern, star)), err |-> NoErr]

GetSearchRegex(pattern) ==
  IF CountStar(pattern) # 1 THEN [re |-> LitRe(<<>>), err |-> ErrAsterisk]
  ELSE LET star == FirstStar(pattern)
       IN  [re |-> GroupRe(SubSeq(pattern, 1, star - 1), Drop(pattern, star)),
            err |-> NoErr]

\* replace.replace("*", r"\1", 1)
ReplacePattern(replace) ==
  LET star == FirstStar(replace)
  IN  IF star = 0 THEN replace ELSE [replace EXCEPT ![star] = BackRef]

\* GlobMapper.__init__; pattern <<>> is None (or the empty string, as falsy).
GlobInit(spec, listing, callback, replace, pattern, file_dep, allow_empty_map) ==
  LET search == IF pattern # <<>> THEN GetSearchRegex(pattern)
                ELSE IF spec.kind = "glob" THEN GetSearchRegex(spec.str)
                ELSE [re |-> LitRe(<<>>), err |-> ErrNoGlob]
  IN  IF search.err # NoErr THEN [mapper |-> NoMapper, err |-> search.err]
      ELSE RegexInit(Glob, spec, listing, callback, search.re, ReplacePattern(replace),
                     TRUE, file_dep, allow_empty_map)

\* The target setter of MergeMapper; new_target <<>> is None.
SetTarget(r, new_target) ==
  IF new_target = <<>> THEN [mapper |-> r, err |-> ErrTarget]
  ELSE [mapper |-> [r EXCEPT !.target = PathOf(new_target)], err |-> NoErr]

\* MergeMapper.__init__
MergeInit(spec, listing, callback, target, file_dep, allow_empty_map) ==
  LET b == BaseInit(Merge, spec, listing, callback, file_dep, allow_empty_map)
  IN  IF b.err # NoErr THEN b ELSE SetTarget(b.mapper, target)

\* CompositeMapper.__init__: src is the default "*".
CompositeInit(sub_mappers, listing, callback, file_dep, allow_empty_map) ==
  LET b == BaseInit(Composite, GlobSpec(<<"*">>), listing, callback, file_dep, allow_empty_map)
  IN  [mapper |-> [b.mapper EXCEPT !.sub_mappers = sub_mappers], err |-> b.err]

\* ChainedMapper.__init__
ChainedInit(spec, listing, sub_mappers, callback, file_dep, allow_empty_map) ==
  LET b == BaseInit(Chained, spec, listing, callback, file_dep, allow_empty_map)
  IN  IF b.err # NoErr THEN b
      ELSE [mapper |-> [b.mapper EXCEPT !.sub_mappers = sub_mappers], err |-> NoErr]

\* ------------------------------------------------------------------ running an action

\* What a callback can return: True, False, or nothing (None).
CallbackResults == {"True", "False", "None"}

RECURSIVE TaskActionLoopShort(_, _, _, _)
TaskActionLoopShort(file_map, rets, k, st) ==
  IF k > Len(file_map) \/ ~st.ok THEN st
  ELSE TaskActionLoopShort(file_map, rets, k + 1,
         [calls |-> Append(st.calls, <<file_map[k][1], file_map[k][2]>>),
          ok |-> IF rets[k] = "False" THEN FALSE ELSE st.ok])

RECURSIVE TaskActionLoop(_, _, _, _)
\* The loop of task_action from entry k on; rets[k] is what the k-th call of the
\* callback returns.  st is the calls made so far and the local ok.
TaskActionLoop(file_map, rets, k, st) ==
  IF k > Len(file_map) THEN st
  ELSE TaskActionLoop(file_map, rets, k + 1,
         [calls |-> Append(st.calls, <<file_map[k][1], file_map[k][2]>>),
          ok |-> IF rets[k] = "False" THEN FALSE ELSE st.ok])

\* One invocation of an action: the callback's calls and the value returned.
InvokeAction(a, rets) ==
  IF a.kind = "noop" THEN [calls |-> <<>>, ok |-> TRUE]
  ELSE TaskActionLoop(a.file_map, rets, 1, [calls |-> <<>>, ok |-> TRUE])

\* ------------------------------------------------------------------ state

VARIABLES
  m,            \* the mapper instances, by id
  dicts,        \* the task dictionaries, by identity
  ret,          \* the last operation, with what it returned or raised
  act,          \* the action the caller holds (from get_action or from a task)
  run,          \* the last invocation of act: the callback's returns, calls, result
  gen,          \* the generator of ChainedMapper.get_task
  yielded,      \* what the generator has yielded so far
  map_counters, \* ChainedMapper.map_counters
  opened,       \* the dictionary opened of open_files_with_merge
  opens         \* the calls of the wrapped callback so far: what each opened, and how

vars == <<m, dicts, ret, act, run, gen, yielded, map_counters, opened, opens>>

\* The dictionaries: the default argument of BaseFileMapper.get_task, the default
\* argument of ChainedMapper.get_task, and the dictionaries a caller passes to
\* the one and to the other.
DictIds == {"default", "chain_default", "arg", "chain_arg"}

NoRef == "none"

LeafTypes == {Identity, Regex, Glob, Merge}

\* The arguments of a constructor call that the checks of construction read.
NoArgs == [type |-> "None", spec |-> BadSpec, pattern |-> <<>>, target |-> <<>>]

\* The last operation: its name, the mapper it was called on, the error it raised,
\* the dictionary it returned (get_task), the map it returned (get_map), the
\* dictionary it was given as it was before the call, and a constructor's arguments.
NoRet ==
  [op |-> "none", who |-> 0, err |-> NoErr, ref |-> NoRef, map |-> <<>>, base |-> EmptyTask,
   args |-> NoArgs]

NoAction == [kind |-> "none", file_map |-> <<>>, cb |-> "None", source |-> <<>>, target |-> <<>>]

NoRun == [done |-> FALSE, rets |-> <<>>, calls |-> <<>>, ok |-> TRUE]

NoGen == [state |-> "none", task |-> NoRef, k |-> 0, src |-> <<>>, base |-> EmptyTask]

Init ==
  /\ m = [i \in MapperIds |-> NoMapper]
  /\ dicts = [d \in DictIds |-> EmptyTask]
  /\ ret = NoRet
  /\ act = NoAction
  /\ run = NoRun
  /\ gen = NoGen
  /\ yielded = <<>>
  /\ map_counters = [t \in LeafTypes |-> 0]
  /\ opened = <<>>
  /\ opens = <<>>

\* ------------------------------------------------------------------ the caller's inputs

Callbacks == {"None", "f", "mv"}

\* The source specifications a caller passes to a constructor or assigns to src.
SrcSpecs ==
  {GlobSpec(<<"*">>), BadSpec} \cup {ListSpec(l) : l \in SrcLists}
    \cup {PathSpec(f) : f \in Files}

\* What pathlib's glob can find for a source specification that is a glob string.
Listings(spec) == IF spec.kind = "glob" THEN SrcLists ELSE {<<>>}

\* The search patterns and replacements of the RegexMappers.
RegexConfigs ==
  {[search |-> GroupRe(<<>>, <<"x">>), replace |-> <<BackRef, "y">>],
   [search |-> LitRe(<<"a">>), replace |-> <<"b">>],
   [search |-> LitRe(<<"a", "x">>), replace |-> <<>>]}

\* The glob patterns (in src or in pattern) and the replacement of the GlobMappers.
GlobPatterns == {<<"*", "x">>, <<"a", "*">>, <<"*", "*">>, <<"a", "x">>}
GlobReplace == <<"*", "y">>

\* The target of the MergeMappers.
MergeTarget == <<"m">>

\* The dictionaries a caller passes to get_task.
BaseDescs ==
  {EmptyTask,
   [EmptyTask EXCEPT !.keys = {"title"}, !.title = "Test dummy"],
   [EmptyTask EXCEPT !.keys = {"title", "name"}, !.title = "Test dummy",
                     !.name = <<"mytask", 0>>],
   [EmptyTask EXCEPT !.keys = {"actions", "targets"}, !.actions = <<UserAction>>,
                     !.targets = {<<"b", "y">>}],
   [EmptyTask EXCEPT !.keys = {"action"}, !.action = "g"]}

\* ------------------------------------------------------------------ operations

Constructed(i, o, args) ==
  /\ m' = IF o.err = NoErr THEN [m EXCEPT ![i] = o.mapper] ELSE m
  /\ ret' = [NoRet EXCEPT !.op = "construct", !.who = i, !.err = o.err, !.args = args]
  /\ UNCHANGED <<dicts, act, run, gen, yielded, map_counters, opened, opens>>

\* IdentityMapper(src, callback, file_dep=, allow_empty_map=)
ConstructIdentity(i, specs, cbs, fds, allows) ==
  /\ ~m[i].exists
  /\ \E spec \in specs, cb \in cbs, fd \in fds, allow \in allows :
       \E listing \in Listings(spec) :
         Constructed(i, IdentityInit(spec, listing, cb, fd, allow),
                     [NoArgs EXCEPT !.type = Identity, !.spec = spec])

\* RegexMapper(src, callback, search=, replace=, ignore_nonmatching=, ...)
ConstructRegex(i, specs, cfgs, igns, cbs, fds, allows) ==
  /\ ~m[i].exists
  /\ \E spec \in specs, cfg \in cfgs, ign \in igns, cb \in cbs, fd \in fds, allow \in allows :
       \E listing \in Listings(spec) :
         Constructed(i, RegexInit(Regex, spec, listing, cb, cfg.search, cfg.replace, ign,
                                  fd, allow),
                     [NoArgs EXCEPT !.type = Regex, !.spec = spec])

\* GlobMapper(src, callback, replace, pattern, ...)
ConstructGlob(i, specs, patterns, cbs, fds, allows) ==
  /\ ~m[i].exists
  /\ \E spec \in specs, pattern \in patterns, cb \in cbs, fd \in fds, allow \in allows :
       \E listing \in Listings(spec) :
         Constructed(i, GlobInit(spec, listing, cb, GlobReplace, pattern, fd, allow),
                     [NoArgs EXCEPT !.type = Glob, !.spec = spec, !.pattern = pattern])

\* MergeMapper(src, callback, target, ...)
ConstructMerge(i, specs, targets, cbs, fds, allows) ==
  /\ ~m[i].exists
  /\ \E spec \in specs, target \in targets, cb \in cbs, fd \in fds, allow \in allows :
       \E listing \in Listings(spec) :
         Constructed(i, MergeInit(spec, listing, cb, target, fd, allow),
                     [NoArgs EXCEPT !.type = Merge, !.spec = spec, !.target = target])

\* CompositeMapper(sub_mappers, callback, ...), the sub-mappers being 1..n.
ConstructComposite(ns, listings, cbs, fds, allows) ==
  /\ ~m[CompId].exists
  /\ \E n \in ns, cb \in cbs, fd \in fds, allow \in allows :
       /\ \A k \in 1..n : m[k].exists
       /\ \E listing \in listings :
            Constructed(CompId, CompositeInit([k \in 1..n |-> k], listing, cb, fd, allow),
                        [NoArgs EXCEPT !.type = Composite])

\* ChainedMapper(src, sub_mappers, callback, ...), the sub-mappers being 1..n.
ConstructChained(specs, ns, cbs, fds, allows) ==
  /\ ~m[ChainId].exists
  /\ \E spec \in specs, n \in ns, cb \in cbs, fd \in fds, allow \in allows :
       /\ \A k \in 1..n : m[k].exists
       /\ \E listing \in Listings(spec) :
            Constructed(ChainId,
                        ChainedInit(spec, listing, [k \in 1..n |-> k], cb, fd, allow),
                        [NoArgs EXCEPT !.type = Chained, !.spec = spec])

\* mapper.src = spec
AssignSrc(i, specs) ==
  /\ m[i].exists
  /\ \E spec \in specs : \E listing \in Listings(spec) :
       LET o == SetSrc(m[i], spec, listing)
       IN  /\ m' = [m EXCEPT ![i] = o.mapper]
           /\ ret' = [NoRet EXCEPT !.op = "set_src", !.who = i, !.err = o.err]
  /\ UNCHANGED <<dicts, act, run, gen, yielded, map_counters, opened, opens>>

\* mapper.get_map()
GetMap(i) ==
  /\ m[i].exists
  /\ \E o \in GetMapOutcomes(m, i) :
       /\ m' = o.ms
       /\ ret' = [NoRet EXCEPT !.op = "get_map", !.who = i, !.err = o.err, !.map = o.map]
  /\ UNCHANGED <<dicts, act, run, gen, yielded, map_counters, opened, opens>>

\* mapper.get_task(base) on a mapper that is no chain, base a dictionary of the
\* caller's (d = "arg"), or mapper.get_task() (d = "default", whose content is
\* whatever earlier calls left in the default argument).
GetTaskOn(i, d, base) ==
  /\ m[i].exists
  /\ m[i].type # Chained
  /\ \E o \in BaseGetTask(m, i, base) :
       /\ m' = o.ms
       /\ dicts' = [dicts EXCEPT ![d] = o.task]
       /\ ret' = [NoRet EXCEPT !.op = "get_task", !.who = i, !.err = o.err,
                               !.ref = IF o.err = NoErr THEN d ELSE NoRef, !.base = base]
  /\ UNCHANGED <<act, run, gen, yielded, map_counters, opened, opens>>

GetTask(i, bases) == \E base \in bases : GetTaskOn(i, "arg", base)

GetTaskDefault(i) == GetTaskOn(i, "default", dicts["default"])

\* a = mapper.get_action(callback)
GetAction(i, cbs) ==
  /\ m[i].exists
  /\ \E cb \in cbs, o \in GetMapOutcomes(m, i) :
       /\ m' = o.ms
       /\ act' = IF o.err = NoErr THEN TaskAction(o.map, cb) ELSE act
       /\ ret' = [NoRet EXCEPT !.op = "get_action", !.who = i, !.err = o.err, !.map = o.map]
  /\ run' = NoRun
  /\ UNCHANGED <<dicts, gen, yielded, map_counters, opened, opens>>

\* a = task["actions"][0] of the dictionary the last get_task returned, when that
\* is one of this module's callables.
TakeAction ==
  /\ ret.op = "get_task"
  /\ ret.ref # NoRef
  /\ "actions" \in dicts[ret.ref].keys
  /\ Len(dicts[ret.ref].actions) > 0
  /\ dicts[ret.ref].actions[1].kind \in {"noop", "task_action"}
  /\ act' = dicts[ret.ref].actions[1]
  /\ run' = NoRun
  /\ UNCHANGED <<m, dicts, ret, gen, yielded, map_counters, opened, opens>>

\* a(targets): one invocation of the action, the callback returning rets[k] on its
\* k-th call.
Invoke ==
  /\ act.kind \in {"noop", "task_action"}
  /\ \E rets \in [1..Len(act.file_map) -> CallbackResults] :
       LET o == InvokeAction(act, rets)
       IN  run' = [done |-> TRUE, rets |-> rets, calls |-> o.calls, ok |-> o.ok]
  /\ UNCHANGED <<m, dicts, ret, act, gen, yielded, map_counters, opened, opens>>

\* ------------------------------------------------------------------ ChainedMapper.get_task

\* What a yield hands to the consumer: the dictionary yielded (NoRef for None) and,
\* for the checks, its content at that moment.
YieldedNone == [ref |-> NoRef, snap |-> EmptyTask]

\* ChainedMapper._get_taskname: "{}{}".format(classname, suffix), as the pair.
GetTaskname(counters, classname) == <<classname, counters[classname] + 1>>

\* gen = chain.get_task(base) or chain.get_task(): nothing of the body runs yet.
ChainGetTaskOn(d, base) ==
  /\ m[ChainId].exists
  /\ gen.state \in {"none", "done"}
  /\ gen' = [state |-> "created", task |-> d, k |-> 0, src |-> <<>>, base |-> base]
  /\ dicts' = [dicts EXCEPT ![d] = base]
  /\ yielded' = <<>>
  /\ ret' = [NoRet EXCEPT !.op = "chain_get_task", !.who = ChainId, !.base = base]
  /\ UNCHANGED <<m, act, run, map_counters, opened, opens>>

ChainGetTask(bases) == \E base \in bases : ChainGetTaskOn("chain_arg", base)

ChainGetTaskDefault == ChainGetTaskOn("chain_default", dicts["chain_default"])

GenRaise(ms, err) ==
  /\ m' = ms
  /\ gen' = [gen EXCEPT !.state = "done"]
  /\ ret' = [NoRet EXCEPT !.op = "next", !.who = ChainId, !.err = err]

\* next(gen) in the mode without callback: lines 234-235 on the first call, then
\* one turn of the loop up to its yield, or the end of the loop.
GenNextStage ==
  /\ m[ChainId].exists
  /\ m[ChainId].callback = "None"
  /\ gen.state \in {"created", "suspended"}
  /\ LET first == gen.state = "created"
         src == IF first THEN m[ChainId].src ELSE gen.src
         counters == IF first THEN [t \in LeafTypes |-> 0] ELSE map_counters
         k == gen.k + 1
         subs == m[ChainId].sub_mappers
     IN  IF k > Len(subs)
         THEN /\ GenRaise(m, ErrStop)
              /\ map_counters' = counters
              /\ UNCHANGED <<dicts, yielded>>
         ELSE LET mapper == subs[k]
                  ms1 == [m EXCEPT ![mapper] = SetSrc(m[mapper], ListSpec(src), <<>>).mapper]
              IN  \E o \in BaseGetTask(ms1, mapper, dicts[gen.task]) :
                    IF o.err # NoErr
                    THEN /\ GenRaise(o.ms, o.err)
                         /\ map_counters' = counters
                         /\ UNCHANGED <<dicts, yielded>>
                    ELSE IF "targets" \notin o.task.keys
                    THEN /\ GenRaise(o.ms, ErrKey)
                         /\ map_counters' = counters
                         /\ dicts' = [dicts EXCEPT ![gen.task] = o.task]
                         /\ UNCHANGED yielded
                    ELSE \E nsrc \in Perms(o.task.targets) :
                           LET type == m[mapper].type
                               sub_task == [o.task EXCEPT !.keys = @ \cup {"name"},
                                                          !.name = GetTaskname(counters, type)]
                           IN  /\ m' = o.ms
                               /\ dicts' = [dicts EXCEPT ![gen.task] = sub_task]
                               /\ map_counters' = [counters EXCEPT ![type] = @ + 1]
                               /\ yielded' = Append(yielded, [ref |-> gen.task, snap |-> sub_task])
                               /\ gen' = [gen EXCEPT !.state = "suspended", !.k = k, !.src = nsrc]
                               /\ ret' = [NoRet EXCEPT !.op = "next", !.who = ChainId,
                                                       !.ref = gen.task]
  /\ UNCHANGED <<act, run, opened, opens>>

\* next(gen) in the mode with a callback, first call: lines 243-245.
GenNextCombined ==
  /\ m[ChainId].exists
  /\ m[ChainId].callback # "None"
  /\ gen.state = "created"
  /\ \E o \in BaseGetTask(m, ChainId, dicts[gen.task]) :
       IF o.err # NoErr
       THEN /\ GenRaise(o.ms, o.err)
            /\ UNCHANGED <<dicts, yielded>>
       ELSE /\ m' = o.ms
            /\ dicts' = [dicts EXCEPT ![gen.task] =
                           [o.task EXCEPT !.keys = @ \cup {"name"}, !.name = <<"chained_map", 0>>]]
            /\ yielded' = Append(yielded, YieldedNone)
            /\ gen' = [gen EXCEPT !.state = "suspended_combined"]
            /\ ret' = [NoRet EXCEPT !.op = "next", !.who = ChainId]
  /\ UNCHANGED <<act, run, map_counters, opened, opens>>

\* next(gen) in the mode with a callback, second call: the body ends.
GenNextStop ==
  /\ gen.state = "suspended_combined"
  /\ GenRaise(m, ErrStop)
  /\ UNCHANGED <<dicts, act, run, yielded, map_counters, opened, opens>>

\* ------------------------------------------------------------------ open_files_with_merge

\* The default modes of open_files_with_merge.
OutMode == "w"
OutAppendMode == "a"

\* o_mode of file_opener: lines 276-281, for the key out_name.
OpenModeAnyTarget(opened_now, out_name) ==
  IF DOMAIN opened_now # {} THEN OutAppendMode ELSE OutMode

OpenMode(opened_now, out_name) ==
  IF out_name \in DOMAIN opened_now THEN OutAppendMode ELSE OutMode

\* The dictionary opened after lines 276-281.
RecordOpened(opened_now, out_name) ==
  IF out_name \in DOMAIN opened_now
  THEN [opened_now EXCEPT ![out_name] = @ + 1]
  ELSE opened_now @@ (out_name :> 1)

\* How the with statement of file_opener can end: _in.open raises (the output is
\* then never opened), _out.open raises, func raises, or func returns a value.
OpenOutcomes == {"in_open_raised", "out_open_raised", "func_raised"} \cup CallbackResults

\* file_opener(_in, _out): one call of the wrapped callback.
FileOpener(outs) ==
  /\ Len(opens) < MaxCalls
  /\ \E _out \in outs, outcome \in OpenOutcomes :
       LET out_name == StrOf(_out)
           o_mode == OpenMode(opened, out_name)
       IN  /\ opened' = RecordOpened(opened, out_name)
           /\ opens' = Append(opens, [out_name |-> out_name,
                                      out_mode |-> IF outcome = "in_open_raised" THEN "none"
                                                   ELSE o_mode,
                                      outcome |-> outcome])
  /\ UNCHANGED <<m, dicts, ret, act, run, gen, yielded, map_counters>>

\* ------------------------------------------------------------------ specifications

\* The source specifications of a GlobMapper: its glob string is also its pattern.
GlobSrcSpecs == SrcSpecs \cup {GlobSpec(p) : p \in GlobPatterns}

\* One mapper without sub-mappers, every configuration: construction, src
\* assignment and mapping resolution.
NextLeaf ==
  \/ ConstructIdentity(1, SrcSpecs, {"None"}, {FALSE}, {FALSE})
  \/ ConstructRegex(1, SrcSpecs, RegexConfigs, BOOLEAN, {"None"}, {TRUE}, {FALSE})
  \/ ConstructGlob(1, GlobSrcSpecs, GlobPatterns \cup {<<>>}, {"None"}, {TRUE}, {FALSE})
  \/ ConstructMerge(1, SrcSpecs, {MergeTarget, <<>>}, {"None"}, {TRUE}, {FALSE})
  \/ AssignSrc(1, SrcSpecs)
  \/ GetMap(1)

SpecLeaf == Init /\ [][NextLeaf]_vars

\* The source lists of the specifications with several mappers: the first
\* entries of the list ax, bx.
StageList == << <<"a", "x">>, <<"b", "x">> >>
StageSrcSpecs == {ListSpec(SubSeq(StageList, 1, n)) : n \in 0..Min(MaxSrc, Len(StageList))}

\* The search pattern and replacement of the stage RegexMappers: (.+)x$ -> \1y.
StageRegex == {[search |-> GroupRe(<<>>, <<"x">>), replace |-> <<BackRef, "y">>]}

\* Mapping resolution through a chain: stage mappers (IdentityMapper, RegexMapper)
\* and a chain over them; get_map on each, src assignment on the chain (the chain
\* assigns the src of its stages).
NextResolve ==
  \/ \E i \in Leaves : ConstructIdentity(i, StageSrcSpecs, {"None"}, {FALSE}, {FALSE})
  \/ \E i \in Leaves : ConstructRegex(i, StageSrcSpecs, StageRegex, {TRUE}, {"None"}, {TRUE},
                                      {FALSE})
  \/ ConstructChained(StageSrcSpecs, 0..MaxStages, {"f"}, {TRUE}, BOOLEAN)
  \/ AssignSrc(ChainId, StageSrcSpecs \cup {BadSpec})
  \/ \E i \in Leaves \cup {ChainId} : GetMap(i)

SpecResolve == Init /\ [][NextResolve]_vars

\* The source specifications that are lists.
ListSrcSpecs == {ListSpec(l) : l \in SrcLists}

\* Building and invoking an action: one mapper (IdentityMapper or MergeMapper),
\* get_action on it, invocations of the action with every combination of callback
\* results, and src assignments in between.
NextAction ==
  \/ ConstructIdentity(1, ListSrcSpecs, {"f"}, {FALSE}, {FALSE})
  \/ ConstructMerge(1, ListSrcSpecs, {MergeTarget}, {"f"}, {TRUE}, {FALSE})
  \/ AssignSrc(1, ListSrcSpecs)
  \/ GetAction(1, {"f"})
  \/ Invoke

SpecAction == Init /\ [][NextAction]_vars

\* The source lists of the specification of get_task: those of the stages, and
\* one that no pattern *x matches.
TaskSrcSpecs == StageSrcSpecs \cup {ListSpec(<< <<"a", "y">> >>)}

\* get_task on the mappers that are no chain: one mapper without sub-mappers of
\* each class, a composite over it or over nothing; get_task with a dictionary of
\* the caller's or with the default one, and the invocation of the action found
\* in the dictionary returned.
NextTask ==
  \/ ConstructIdentity(1, TaskSrcSpecs, {"None", "f"}, {FALSE}, BOOLEAN)
  \/ ConstructRegex(1, TaskSrcSpecs, StageRegex, {TRUE}, {"None"}, {TRUE}, BOOLEAN)
  \/ ConstructGlob(1, TaskSrcSpecs, {<<"*", "x">>}, {"None"}, {TRUE}, BOOLEAN)
  \/ ConstructMerge(1, TaskSrcSpecs, {MergeTarget}, {"None"}, {TRUE}, BOOLEAN)
  \/ ConstructComposite(0..1, {<<>>}, {"None"}, {TRUE}, BOOLEAN)
  \/ \E i \in {1, CompId} : GetTask(i, BaseDescs)
  \/ \E i \in {1, CompId} : GetTaskDefault(i)
  \/ TakeAction
  \/ Invoke

SpecTask == Init /\ [][NextTask]_vars

\* The source lists of the sub-mappers of a composite: one that no pattern *x
\* matches, and one of two files.
CompositeSrcSpecs ==
  {ListSpec(<< <<"a", "y">> >>), ListSpec(<< <<"a", "x">>, <<"b", "x">> >>)}

\* CompositeMapper over sub-mappers of two classes: the first sub-mapper and
\* the composite are given new sources at any time, and the composite is resolved by
\* get_map or by get_task.
NextComposite ==
  \/ ConstructIdentity(1, CompositeSrcSpecs, {"None"}, {TRUE}, {FALSE})
  \/ \E i \in Leaves \ {1} :
       ConstructRegex(i, CompositeSrcSpecs, StageRegex, {TRUE}, {"None"}, {TRUE}, {FALSE})
  \/ ConstructComposite(0..MaxStages, {<<>>}, {"f"}, {TRUE}, {FALSE})
  \/ AssignSrc(1, CompositeSrcSpecs)
  \/ AssignSrc(CompId, {ListSpec(<< <<"a", "y">> >>)})
  \/ \E i \in Leaves \cup {CompId} : GetMap(i)
  \/ GetTask(CompId, {EmptyTask})

SpecComposite == Init /\ [][NextComposite]_vars

\* The dictionaries a caller passes to the get_task of a chain.
ChainBases ==
  {EmptyTask,
   [EmptyTask EXCEPT !.keys = {"title", "name"}, !.title = "Test dummy",
                     !.name = <<"mytask", 0>>]}

\* get_task of a chain in both modes: stage mappers (IdentityMapper, RegexMapper),
\* a chain over them with or without a callback, and the generator that
\* get_task returns, consumed one next() at a time.
NextChain ==
  \/ \E i \in Leaves : ConstructIdentity(i, {ListSpec(<<>>)}, {"f"}, {TRUE}, BOOLEAN)
  \/ \E i \in Leaves : ConstructRegex(i, {ListSpec(<<>>)}, StageRegex, {TRUE}, {"f"}, {TRUE},
                                      BOOLEAN)
  \/ ConstructChained(StageSrcSpecs, 0..MaxStages, {"None", "f"}, {TRUE}, {FALSE})
  \/ ChainGetTask(ChainBases)
  \/ ChainGetTaskDefault
  \/ GenNextStage
  \/ GenNextCombined
  \/ GenNextStop

SpecChain == Init /\ [][NextChain]_vars

\* The targets the wrapped callback is called with.
MergeOuts == {<<"a", "x">>, <<"a", "y">>}

\* One callback wrapped by open_files_with_merge, called again and again.
NextMerge == FileOpener(MergeOuts)

SpecMerge == Init /\ [][NextMerge]_vars

\* ------------------------------------------------------------------ properties

\* The sources of src that a RegexMapper keeps, in order: those the pattern search
\* matches, and with ignore_nonmatching off the others too.
KeptSources(r) ==
  SelectSeq(r.src, LAMBDA s : Search(r.pattern, StrOf(s)) \/ ~r.ignore_nonmatching)

\* C9: the resolved mapping of a RegexMapper (a GlobMapper is one) lists, in source
\* order, (s, substitute(s)) for every source the pattern search matches; a source
\* it does not match is left out when ignore_nonmatching is on and is the entry
\* (s, s) when it is off.
C9_RegexMapping ==
  \A i \in MapperIds :
    (m[i].exists /\ m[i].type \in {Regex, Glob} /\ m[i].map_initialized) =>
      LET r == m[i]
          kept == KeptSources(r)
      IN  /\ Len(r.map) = Len(kept)
          /\ \A k \in 1..Len(kept) :
               /\ r.map[k][1] = kept[k]
               /\ Search(r.pattern, StrOf(kept[k])) =>
                    r.map[k][2] = PathOf(ReSub(r.pattern, r.replace, StrOf(kept[k])))
               /\ ~Search(r.pattern, StrOf(kept[k])) => r.map[k][2] = kept[k]
          /\ \A k \in 1..Len(r.src) :
               (r.ignore_nonmatching /\ ~Search(r.pattern, StrOf(r.src[k]))) =>
                 \A j \in 1..Len(r.map) : r.map[j][1] # r.src[k]

\* C9, its case: a RegexMapper with ignore_nonmatching off has resolved two
\* sources, one matching (and changed by the substitution) and one not matching.
C9_Witness ==
  /\ m[1].exists /\ m[1].type = Regex /\ ~m[1].ignore_nonmatching /\ m[1].map_initialized
  /\ ret.op = "get_map"
  /\ Len(m[1].map) = 2
  /\ \E k \in 1..2 : Search(m[1].pattern, m[1].map[k][1]) /\ m[1].map[k][2] # m[1].map[k][1]
  /\ \E k \in 1..2 : ~Search(m[1].pattern, m[1].map[k][1]) /\ m[1].map[k][2] = m[1].map[k][1]

\* The search pattern of a GlobMapper constructor call: pattern, or the glob string
\* src when no pattern is given.
HasSearchPattern(args) == args.pattern # <<>> \/ args.spec.kind = "glob"
SearchPattern(args) == IF args.pattern # <<>> THEN args.pattern ELSE args.spec.str

GlobRejected ==
  (ret.op = "construct" /\ ret.args.type = Glob /\ HasSearchPattern(ret.args)
     /\ CountStar(SearchPattern(ret.args)) # 1)
    => (ret.err = ErrAsterisk /\ ~m[ret.who].exists)

NoMisconfiguredInstance ==
  \A i \in MapperIds :
    /\ (m[i].exists /\ m[i].type = Glob) => m[i].pattern.kind = "group"
    /\ (m[i].exists /\ m[i].type = Merge) => m[i].target # <<>>

\* C10 as stated: constructing a GlobMapper whose search pattern has zero or more
\* than one asterisk fails with the asterisk error, constructing a MergeMapper
\* with no target fails with the Target error, and no such instance exists.
C10_Original ==
  /\ GlobRejected
  /\ (ret.op = "construct" /\ ret.args.type = Merge /\ ret.args.target = <<>>)
       => (ret.err = ErrTarget /\ ~m[ret.who].exists)
  /\ NoMisconfiguredInstance

\* C10 as amended: the same, except that a MergeMapper with no target whose src is
\* itself rejected by the src setter fails with that error, which is raised first.
C10_ConstructionRejects ==
  /\ GlobRejected
  /\ (ret.op = "construct" /\ ret.args.type = Merge /\ ret.args.target = <<>>)
       => /\ ~m[ret.who].exists
          /\ ret.err = IF ret.args.spec.kind = "bad" THEN ErrSrc ELSE ErrTarget
  /\ NoMisconfiguredInstance

\* C10, its case: a MergeMapper constructed with a valid src and no target.
C10_Witness ==
  /\ ret.op = "construct" /\ ret.args.type = Merge /\ ret.args.target = <<>>
  /\ ret.args.spec.kind = "list" /\ ret.err = ErrTarget

\* C3 as stated: on every mapper, _create_map runs at most once between two
\* consecutive src assignments.
C3_Original == \A i \in MapperIds : m[i].exists => m[i].runs <= 1

\* C3 as amended: between two consecutive src assignments _create_map returns at
\* most once, and on a mapper without sub-mappers it runs at most once; the map
\* is cached exactly when a _create_map has returned since the last src
\* assignment, the cached map of a mapper without sub-mappers is the one its
\* current src resolves to, a get_map that returns returns the cached map, and a
\* src assignment that is accepted leaves no cached map.  (A _create_map that
\* raises caches nothing, so the next get_map runs it again.)
C3_ResolvedOnce ==
  /\ \A i \in MapperIds :
       m[i].exists =>
         /\ m[i].okruns <= 1
         /\ m[i].map_initialized <=> (m[i].okruns = 1)
         /\ m[i].type \in LeafTypes => m[i].runs <= 1
         /\ (m[i].type = Identity /\ m[i].map_initialized) =>
              m[i].map = [k \in 1..Len(m[i].src) |-> <<m[i].src[k], m[i].src[k]>>]
         /\ (m[i].type = Regex /\ m[i].map_initialized) =>
              Sources(m[i].map) = KeptSources(m[i])
  /\ (ret.op = "get_map" /\ ret.err = NoErr) =>
       (m[ret.who].map_initialized /\ ret.map = m[ret.who].map)
  /\ (ret.op = "set_src" /\ ret.err = NoErr) =>
       (~m[ret.who].map_initialized /\ m[ret.who].runs = 0)

\* C3, its case: the get_map of a chain has raised for the second time since the
\* chain's src was assigned: _create_map has run twice and nothing is cached,
\* while the stage mapper it resolved holds its map, resolved once.
C3_Witness ==
  /\ ret.op = "get_map" /\ ret.who = ChainId /\ ret.err = ErrEmpty
  /\ m[ChainId].runs = 2 /\ m[ChainId].okruns = 0 /\ ~m[ChainId].map_initialized
  /\ m[1].map_initialized /\ m[1].runs = 1

\* C7: in the mode with a callback, when a stage's resolved mapping is empty the
\* resolution of the chain raises the empty-mapping error if allow_empty_map is
\* off, and raises nothing if it is on.
C7_EmptyStage ==
  (/\ ret.op = "get_map" /\ ret.who = ChainId
   /\ m[ChainId].callback # "None"
   /\ ~m[ChainId].map_initialized
   /\ \E k \in 1..Len(m[ChainId].sub_mappers) :
        LET sub == m[ChainId].sub_mappers[k]
        IN  m[sub].map_initialized /\ m[sub].map = <<>>)
    => ret.err = IF m[ChainId].allow_empty_map THEN NoErr ELSE ErrEmpty

\* C2: an invocation of the action get_action returned has called the callback
\* once for every entry of the mapping resolved at get_action, in mapping order,
\* whatever the earlier calls returned, and it returns failure exactly when some
\* call returned False.
C2_ActionCallsAll ==
  /\ (ret.op = "get_action" /\ ret.err = NoErr) =>
       (act.kind = "task_action" /\ act.file_map = ret.map)
  /\ (run.done /\ act.kind = "task_action") =>
       /\ Len(run.calls) = Len(act.file_map)
       /\ \A k \in 1..Len(act.file_map) :
            run.calls[k] = <<act.file_map[k][1], act.file_map[k][2]>>
       /\ ~run.ok <=> \E k \in 1..Len(act.file_map) : run.rets[k] = "False"

\* C2, its case: an action over two entries has been invoked, the callback
\* returning False on the first entry and True on the second.
C2_Witness ==
  /\ run.done /\ act.kind = "task_action"
  /\ Len(act.file_map) = 2
  /\ run.rets[1] = "False" /\ run.rets[2] = "True"
  /\ Len(run.calls) = 2 /\ ~run.ok


\* The last operation was get_task on a mapper whose resolved mapping is empty.
GetTaskOnEmptyMap ==
  /\ ret.op = "get_task"
  /\ m[ret.who].map_initialized
  /\ m[ret.who].map = <<>>

\* C1 as stated: get_task on a mapper that is no chain and whose resolved mapping
\* is empty raises the empty-mapping error when allow_empty_map is false, and
\* otherwise returns a dictionary without targets whose actions are exactly one
\* no-op; invoking the no-op returns success.
C1_Original ==
  /\ GetTaskOnEmptyMap =>
       IF m[ret.who].allow_empty_map
       THEN /\ ret.err = NoErr
            /\ "targets" \in dicts[ret.ref].keys => dicts[ret.ref].targets = {}
            /\ "actions" \in dicts[ret.ref].keys
            /\ dicts[ret.ref].actions = <<Noop>>
       ELSE ret.err = ErrEmpty
  /\ (run.done /\ act.kind = "noop") => run.ok

\* C1 as the code has it: get_task on a mapper that is no chain and whose resolved
\* mapping is empty raises the empty-mapping error when allow_empty_map is false;
\* otherwise it returns the dictionary it was given, to which it adds actions, as
\* exactly one no-op, only when the dictionary had no actions entry, and in which
\* it changes nothing else (an actions or a targets entry that was there stays);
\* invoking the no-op calls no callback and returns success.
C1_EmptyMapTask ==
  /\ GetTaskOnEmptyMap =>
       IF m[ret.who].allow_empty_map
       THEN /\ ret.err = NoErr
            /\ ret.ref # NoRef
            /\ LET t == dicts[ret.ref]
                   keep == [ret.base EXCEPT !.keys = t.keys, !.actions = t.actions]
               IN  /\ t = keep
                   /\ "actions" \in ret.base.keys =>
                        (t.keys = ret.base.keys /\ t.actions = ret.base.actions)
                   /\ "actions" \notin ret.base.keys =>
                        (t.keys = ret.base.keys \cup {"actions"} /\ t.actions = <<Noop>>)
       ELSE ret.err = ErrEmpty /\ ret.ref = NoRef
  /\ (run.done /\ act.kind = "noop") => (run.ok /\ run.calls = <<>>)

\* A tolerated empty mapping gave a dictionary that had no actions, and the no-op
\* put into it was taken from it and invoked.
C1_Witness ==
  /\ GetTaskOnEmptyMap
  /\ m[ret.who].allow_empty_map
  /\ ret.err = NoErr
  /\ "actions" \notin ret.base.keys
  /\ dicts[ret.ref].actions = <<Noop>>
  /\ act = Noop
  /\ run.done
  /\ run.ok


RECURSIVE ConcatMaps(_, _)
\* The maps of the mappers subs, one after the other.
ConcatMaps(ms, subs) ==
  IF subs = <<>> THEN <<>> ELSE ms[Head(subs)].map \o ConcatMaps(ms, Tail(subs))

\* str(s) of the sources of a map, as a set.
SourceStrs(file_map) == {StrOf(file_map[k][1]) : k \in 1..Len(file_map)}

\* C8: a step that resolves the CompositeMapper leaves every sub-mapper resolved,
\* each against its own src (a sub-mapper resolved before keeps its map), and the
\* composite's map is the concatenation of the sub-mappers' maps in sub-mapper
\* order, whatever the composite's own src; when the step is a get_task that
\* returns, targets and file_dep of the dictionary are the unions of the
\* sub-mappers' targets and sources.
C8_CompositeConcat ==
  [][(m[CompId].exists /\ ~m[CompId].map_initialized /\ m'[CompId].map_initialized) =>
       LET subs == m[CompId].sub_mappers
       IN  /\ \A k \in Range(subs) :
                /\ m'[k].map_initialized
                /\ m'[k].src = m[k].src
                /\ m'[k].map = IF m[k].map_initialized THEN m[k].map
                               ELSE LeafCreateMap(m[k])
           /\ m'[CompId].map = ConcatMaps(m', subs)
           /\ (ret'.op = "get_task" /\ ret'.err = NoErr) =>
                /\ {"targets", "file_dep"} \subseteq dicts'[ret'.ref].keys
                /\ dicts'[ret'.ref].targets = UNION {TargetStrs(m'[k].map) : k \in Range(subs)}
                /\ Range(dicts'[ret'.ref].file_dep) =
                     UNION {SourceStrs(m'[k].map) : k \in Range(subs)}]_vars

\* get_task has resolved a composite of two sub-mappers with different non-empty
\* maps, while the composite's own src names a file neither of them maps.
C8_Witness ==
  /\ ret.op = "get_task"
  /\ ret.who = CompId
  /\ ret.err = NoErr
  /\ m[CompId].src = << <<"a", "y">> >>
  /\ m[CompId].runs = 1
  /\ Len(m[CompId].sub_mappers) = 2
  /\ m[1].map # <<>>
  /\ m[2].map # <<>>
  /\ m[1].map # m[2].map
  /\ m[CompId].map = m[1].map \o m[2].map
  /\ m[CompId].map # m[2].map \o m[1].map
  /\ Cardinality(dicts[ret.ref].targets) > 1


\* Every key of base other than targets, file_dep and actions is in t with the
\* value it has in base.
ExtraKeysKept(base, t) ==
  \A key \in base.keys \ {"targets", "file_dep", "actions"} :
    key \in t.keys /\ t[key] = base[key]

\* C4 as stated: every dictionary that get_task returns (of a mapper that is no
\* chain) or yields (of a chain, in either mode) has each key of the base
\* dictionary other than targets, file_dep and actions, with the caller's value.
C4_Original ==
  /\ (ret.op = "get_task" /\ ret.err = NoErr) => ExtraKeysKept(ret.base, dicts[ret.ref])
  /\ \A k \in 1..Len(yielded) :
       yielded[k].ref # NoRef /\ ExtraKeysKept(gen.base, yielded[k].snap)

\* The name _get_taskname gives stage k of the stages subs: the class name and
\* the number of stages of that class up to k.
StageName(ms, subs, k) ==
  <<ms[subs[k]].type, Cardinality({j \in 1..k : ms[subs[j]].type = ms[subs[k]].type})>>

\* The generator of a chain without callback has been consumed to its end.
ConsumedStages ==
  /\ m[ChainId].exists
  /\ m[ChainId].callback = "None"
  /\ gen.state = "done"
  /\ ret.op = "next"
  /\ ret.err = ErrStop

\* C5 as stated: after the generator of a chain without callback is consumed to
\* its end, it has yielded one dictionary per stage, in stage order; the first
\* stage's src is the chain's, the src of each later stage is the targets of the
\* dictionary yielded before; and the dictionaries yielded carry the names
\* <class><occurrence>, which are pairwise distinct.
C5_Original ==
  ConsumedStages =>
    LET subs == m[ChainId].sub_mappers
        desc(k) == dicts[yielded[k].ref]
    IN  /\ Len(yielded) = Len(subs)
        /\ \A k \in 1..Len(subs) :
             /\ yielded[k].ref # NoRef
             /\ "name" \in desc(k).keys
             /\ desc(k).name = StageName(m, subs, k)
             /\ \A j \in 1..Len(subs) : j # k => desc(j).name # desc(k).name
             /\ k = 1 => m[subs[k]].src = m[ChainId].src
             /\ k > 1 => {StrOf(p) : p \in Range(m[subs[k]].src)} = yielded[k - 1].snap.targets

\* The first next() on the generator of a chain with a callback has returned.
YieldedCombined ==
  /\ m[ChainId].exists
  /\ m[ChainId].callback # "None"
  /\ gen.state = "suspended_combined"

\* C6 as stated: the generator of a chain with a callback yields one dictionary,
\* whose targets are the targets the last stage resolved and whose file_dep are
\* the sources the first stage resolved.
C6_Original ==
  YieldedCombined =>
    LET subs == m[ChainId].sub_mappers
    IN  /\ Len(yielded) = 1
        /\ yielded[1].ref # NoRef
        /\ yielded[1].snap.targets = TargetStrs(m[subs[Len(subs)]].map)
        /\ Range(yielded[1].snap.file_dep) = SourceStrs(m[subs[1]].map)


\* The number of the first n calls of the wrapped callback that were for out_name.
CallsFor(out_name, n) == Cardinality({k \in 1..n : opens[k].out_name = out_name})

\* C11: a call of the callback wrapped by open_files_with_merge that gets to open
\* its output opens it with mode w when it is the first call for that target
\* (by the target's string) and with mode a when it is a later one, whatever the
\* calls for other targets; and the record opened counts every call for a
\* target, so it is never reset.
C11_MergeModes ==
  /\ \A k \in 1..Len(opens) :
       opens[k].outcome # "in_open_raised" =>
         opens[k].out_mode = IF CallsFor(opens[k].out_name, k - 1) = 0 THEN OutMode
                             ELSE OutAppendMode
  /\ \A out \in MergeOuts :
       IF CallsFor(StrOf(out), Len(opens)) = 0 THEN StrOf(out) \notin DOMAIN opened
       ELSE /\ StrOf(out) \in DOMAIN opened
            /\ opened[StrOf(out)] = CallsFor(StrOf(out), Len(opens))

\* Three calls, the first and the third for one target and the second for
\* another: the outputs were opened with w, w and a.
C11_Witness ==
  /\ Len(opens) = 3
  /\ opens[1].out_name = opens[3].out_name
  /\ opens[2].out_name # opens[1].out_name
  /\ \A k \in 1..3 : opens[k].outcome \in CallbackResults
  /\ opens[1].out_mode = OutMode
  /\ opens[2].out_mode = OutMode
  /\ opens[3].out_mode = OutAppendMode
  /\ opened[opens[1].out_name] = 2


\* The last operation was get_task() without a dictionary, and it returned.
DefaultTaskReturned ==
  /\ ret.op = "get_task"
  /\ ret.ref = "default"
  /\ ret.err = NoErr

\* C12 as stated: the dictionary get_task() returns is the one that get_task
\* gives for an empty dictionary on that mapper, with no targets, file_dep,
\* actions or name left from an earlier call; and the dictionary that an earlier
\* get_task() returned (it is the default dictionary, whose content before this
\* call is what that call left) has after the call the content it had before.
C12_Original ==
  DefaultTaskReturned =>
    /\ dicts[ret.ref] \in {o.task : o \in BaseGetTask(m, ret.who, EmptyTask)}
    /\ ret.base # EmptyTask => dicts[ret.ref] = ret.base

====
